---------------------------- MODULE Spec2Model ----------------------------
(***************************************************************************)
(* A model of .github/scripts/install_zephyr_sdk.py: the script resolves   *)
(* a Zephyr SDK release, selects one asset, downloads it, installs it      *)
(* (self-extracting installer or tarball) and records the installation     *)
(* directory in the CI environment file.                                   *)
(*                                                                         *)
(* Python strings are modelled as sequences of one-character strings, so   *)
(* that strip, lower, endswith, `in', replace, split and join are computed *)
(* character by character as the interpreter computes them.                *)
(***************************************************************************)
EXTENDS Integers, Sequences, FiniteSets, TLC

(***************************************************************************)
(* Bounds of the model.                                                    *)
(***************************************************************************)
\* Largest number of assets in a release the selector is applied to.
MaxAssets ==
    2
\* Largest number of assets in a release returned to a full run of main.
MaxLookupAssets ==
    1
\* Largest number of top-level entries an archive unpacks.
MaxMembers ==
    2
\* Modification times range over 1..MaxMtime.
MaxMtime ==
    2

(***************************************************************************)
(* String literals of the script.                                          *)
(***************************************************************************)
\* "https://api.github.com/repos/zephyrproject-rtos/sdk-ng/releases"
REPO_RELEASES ==
    <<"h","t","t","p","s",":","/","/","a","p","i",".","g","i","t","h","u","b",".","c","o","m","/","r","e","p","o","s","/","z","e","p","h","y","r","p","r","o","j","e","c","t","-","r","t","o","s","/","s","d","k","-","n","g","/","r","e","l","e","a","s","e","s">>
\* "/tags/v"
TAGS_V ==
    <<"/","t","a","g","s","/","v">>
\* "/latest"
LATEST ==
    <<"/","l","a","t","e","s","t">>
\* "Failed to fetch SDK release metadata from "
FETCH_FAILED ==
    <<"F","a","i","l","e","d"," ","t","o"," ","f","e","t","c","h"," ","S","D","K"," ","r","e","l","e","a","s","e"," ","m","e","t","a","d","a","t","a"," ","f","r","o","m"," ">>
\* ": "
COLON_SP ==
    <<":"," ">>
\* ".run"
DOT_RUN ==
    <<".","r","u","n">>
\* "linux"
LINUX ==
    <<"l","i","n","u","x">>
\* "x86_64"
X86_64 ==
    <<"x","8","6","_","6","4">>
\* "hosttools"
HOSTTOOLS ==
    <<"h","o","s","t","t","o","o","l","s">>
\* ".tar.xz"
DOT_TAR_XZ ==
    <<".","t","a","r",".","x","z">>
\* "minimal"
MINIMAL ==
    <<"m","i","n","i","m","a","l">>
\* ", "
COMMA_SP ==
    <<","," ">>
\* "<unknown>"
UNKNOWN ==
    <<"<","u","n","k","n","o","w","n",">">>
\* "<no assets>"
NO_ASSETS ==
    <<"<","n","o"," ","a","s","s","e","t","s",">">>
\* "Zephyr SDK Linux installer not found. Available assets: "
NOT_FOUND ==
    <<"Z","e","p","h","y","r"," ","S","D","K"," ","L","i","n","u","x"," ","i","n","s","t","a","l","l","e","r"," ","n","o","t"," ","f","o","u","n","d","."," ","A","v","a","i","l","a","b","l","e"," ","a","s","s","e","t","s",":"," ">>
\* "_linux"
UNDERSCORE_LINUX ==
    <<"_","l","i","n","u","x">>
\* "zephyr-sdk-"
ZEPHYR_SDK_DASH ==
    <<"z","e","p","h","y","r","-","s","d","k","-">>
\* "zephyr-sdk"
ZEPHYR_SDK ==
    <<"z","e","p","h","y","r","-","s","d","k">>
\* "Failed to locate extracted Zephyr SDK directory after unpacking tarball."
LOCATE_FAILED ==
    <<"F","a","i","l","e","d"," ","t","o"," ","l","o","c","a","t","e"," ","e","x","t","r","a","c","t","e","d"," ","Z","e","p","h","y","r"," ","S","D","K"," ","d","i","r","e","c","t","o","r","y"," ","a","f","t","e","r"," ","u","n","p","a","c","k","i","n","g"," ","t","a","r","b","a","l","l",".">>
\* "GITHUB_ENV is not set; cannot persist SDK path."
ENV_NOT_SET ==
    <<"G","I","T","H","U","B","_","E","N","V"," ","i","s"," ","n","o","t"," ","s","e","t",";"," ","c","a","n","n","o","t"," ","p","e","r","s","i","s","t"," ","S","D","K"," ","p","a","t","h",".">>
\* "ZEPHYR_SDK_INSTALL_DIR="
INSTALL_DIR_EQ ==
    <<"Z","E","P","H","Y","R","_","S","D","K","_","I","N","S","T","A","L","L","_","D","I","R","=">>
\* "--"
DASH_DASH ==
    <<"-","-">>
\* "-d"
DASH_D ==
    <<"-","d">>
\* "/"
SLASH ==
    <<"/">>

(***************************************************************************)
(* Texts of exceptions, and the names and values the inputs are built from. *)
(***************************************************************************)
\* "NameError: name 'stat' is not defined"
NameErrorStat ==
    <<"N","a","m","e","E","r","r","o","r",":"," ","n","a","m","e"," ","'","s","t","a","t","'"," ","i","s"," ","n","o","t"," ","d","e","f","i","n","e","d">>
\* "KeyError: 'HOME'"
KeyErrorHome ==
    <<"K","e","y","E","r","r","o","r",":"," ","'","H","O","M","E","'">>
\* "HTTP Error 404: Not Found"
Http404 ==
    <<"H","T","T","P"," ","E","r","r","o","r"," ","4","0","4",":"," ","N","o","t"," ","F","o","u","n","d">>
\* "HTTP Error 503: Service Unavailable"
Http503 ==
    <<"H","T","T","P"," ","E","r","r","o","r"," ","5","0","3",":"," ","S","e","r","v","i","c","e"," ","U","n","a","v","a","i","l","a","b","l","e">>
\* "urllib.error.URLError: <urlopen error [Errno 111] Connection refused>"
UrlErrorText ==
    <<"u","r","l","l","i","b",".","e","r","r","o","r",".","U","R","L","E","r","r","o","r",":"," ","<","u","r","l","o","p","e","n"," ","e","r","r","o","r"," ","[","E","r","r","n","o"," ","1","1","1","]"," ","C","o","n","n","e","c","t","i","o","n"," ","r","e","f","u","s","e","d",">">>
\* "subprocess.CalledProcessError: Command returned non-zero exit status 1."
CalledProcessErrorText ==
    <<"s","u","b","p","r","o","c","e","s","s",".","C","a","l","l","e","d","P","r","o","c","e","s","s","E","r","r","o","r",":"," ","C","o","m","m","a","n","d"," ","r","e","t","u","r","n","e","d"," ","n","o","n","-","z","e","r","o"," ","e","x","i","t"," ","s","t","a","t","u","s"," ","1",".">>
\* "tarfile.ReadError: file could not be opened successfully"
TarReadErrorText ==
    <<"t","a","r","f","i","l","e",".","R","e","a","d","E","r","r","o","r",":"," ","f","i","l","e"," ","c","o","u","l","d"," ","n","o","t"," ","b","e"," ","o","p","e","n","e","d"," ","s","u","c","c","e","s","s","f","u","l","l","y">>
\* "0.17.0"
V0170 ==
    <<"0",".","1","7",".","0">>
\* " 0.16.8 "
V0168Padded ==
    <<" ","0",".","1","6",".","8"," ">>
\* " "
Blank ==
    <<" ">>
\* "/home/ci"
HomeDir ==
    <<"/","h","o","m","e","/","c","i">>
\* "/tmp/env"
EnvFilePath ==
    <<"/","t","m","p","/","e","n","v">>
\* "zephyr-sdk-0.17.0_linux-x86_64_setup.run"
RunSetup ==
    <<"z","e","p","h","y","r","-","s","d","k","-","0",".","1","7",".","0","_","l","i","n","u","x","-","x","8","6","_","6","4","_","s","e","t","u","p",".","r","u","n">>
\* "zephyr-sdk-0.17.0_Linux-X86_64.run"
RunUpper ==
    <<"z","e","p","h","y","r","-","s","d","k","-","0",".","1","7",".","0","_","L","i","n","u","x","-","X","8","6","_","6","4",".","r","u","n">>
\* "HostTools_linux-x86_64.run"
RunHosttools ==
    <<"H","o","s","t","T","o","o","l","s","_","l","i","n","u","x","-","x","8","6","_","6","4",".","r","u","n">>
\* "zephyr-sdk-0.17.0_linux-x86_64_minimal.tar.xz"
TarMinimal ==
    <<"z","e","p","h","y","r","-","s","d","k","-","0",".","1","7",".","0","_","l","i","n","u","x","-","x","8","6","_","6","4","_","m","i","n","i","m","a","l",".","t","a","r",".","x","z">>
\* "zephyr-sdk-0.16.8_linux-x86_64.tar.xz"
TarFull ==
    <<"z","e","p","h","y","r","-","s","d","k","-","0",".","1","6",".","8","_","l","i","n","u","x","-","x","8","6","_","6","4",".","t","a","r",".","x","z">>
\* "zephyr-sdk-0.17.0-Linux-x86_64-MINIMAL.tar.xz"
TarDash ==
    <<"z","e","p","h","y","r","-","s","d","k","-","0",".","1","7",".","0","-","L","i","n","u","x","-","x","8","6","_","6","4","-","M","I","N","I","M","A","L",".","t","a","r",".","x","z">>
\* "sha256.sum"
Checksums ==
    <<"s","h","a","2","5","6",".","s","u","m">>
\* "ConnectionResetError: [Errno 104] Connection reset by peer"
ConnResetText ==
    <<"C","o","n","n","e","c","t","i","o","n","R","e","s","e","t","E","r","r","o","r",":"," ","[","E","r","r","n","o"," ","1","0","4","]"," ","C","o","n","n","e","c","t","i","o","n"," ","r","e","s","e","t"," ","b","y"," ","p","e","e","r">>
\* "zephyr-sdk-0.17.0_linux-x86_64.tar.xz"
TarFull17 ==
    <<"z","e","p","h","y","r","-","s","d","k","-","0",".","1","7",".","0","_","l","i","n","u","x","-","x","8","6","_","6","4",".","t","a","r",".","x","z">>
\* "https://github.com/dl/"
DownloadHost ==
    <<"h","t","t","p","s",":","/","/","g","i","t","h","u","b",".","c","o","m","/","d","l","/">>
\* "tools"
Tools ==
    <<"t","o","o","l","s">>
\* "zephyr-sdk-old"
OldSdk ==
    <<"z","e","p","h","y","r","-","s","d","k","-","o","l","d">>
\* "zephyr-sdk-0.17.0"
Dir0170 ==
    <<"z","e","p","h","y","r","-","s","d","k","-","0",".","1","7",".","0">>
\* "zephyr-sdk-0.16.8"
Dir0168 ==
    <<"z","e","p","h","y","r","-","s","d","k","-","0",".","1","6",".","8">>
\* "zephyr-sdk-0.16.8_linux-x86_64"
DirFull0168 ==
    <<"z","e","p","h","y","r","-","s","d","k","-","0",".","1","6",".","8","_","l","i","n","u","x","-","x","8","6","_","6","4">>
\* "zephyr-sdk-0.17.0-Linux-x86_64-MINIMAL"
DirDash ==
    <<"z","e","p","h","y","r","-","s","d","k","-","0",".","1","7",".","0","-","L","i","n","u","x","-","x","8","6","_","6","4","-","M","I","N","I","M","A","L">>
\* "zephyr-sdk-0.17.0_linux-x86_64_minimal"
DirMinimal ==
    <<"z","e","p","h","y","r","-","s","d","k","-","0",".","1","7",".","0","_","l","i","n","u","x","-","x","8","6","_","6","4","_","m","i","n","i","m","a","l">>
\* "/work"
WorkDir ==
    <<"/","w","o","r","k">>

(***************************************************************************)
(* Python string operations.                                               *)
(***************************************************************************)
ascii_uppercase ==
    <<"A","B","C","D","E","F","G","H","I","J","K","L","M",
      "N","O","P","Q","R","S","T","U","V","W","X","Y","Z">>
ascii_lowercase ==
    <<"a","b","c","d","e","f","g","h","i","j","k","l","m",
      "n","o","p","q","r","s","t","u","v","w","x","y","z">>
\* Characters str.strip() removes.
whitespace ==
    {" ", "\t", "\n", "\r"}

\* One character of str.lower().
LowerChar(c) ==
    IF \E i \in 1..Len(ascii_uppercase) : ascii_uppercase[i] = c
    THEN ascii_lowercase[CHOOSE i \in 1..Len(ascii_uppercase) : ascii_uppercase[i] = c]
    ELSE c

\* s.lower()
Lower(s) ==
    [i \in 1..Len(s) |-> LowerChar(s[i])]

\* s.startswith(prefix)
StartsWith(s, prefix) ==
    /\ Len(prefix) <= Len(s)
    /\ SubSeq(s, 1, Len(prefix)) = prefix

\* s.endswith(suffix)
EndsWith(s, suffix) ==
    /\ Len(suffix) <= Len(s)
    /\ SubSeq(s, Len(s) - Len(suffix) + 1, Len(s)) = suffix

\* True when sub occurs in s at (1-based) position i.
OccursAt(s, sub, i) ==
    /\ i >= 1
    /\ i + Len(sub) - 1 <= Len(s)
    /\ SubSeq(s, i, i + Len(sub) - 1) = sub

\* sub in s
Contains(s, sub) ==
    \E i \in 1..(Len(s) + 1) : OccursAt(s, sub, i)

\* s.find(sub) as a 1-based position, 0 when sub does not occur.
Find(s, sub) ==
    IF Contains(s, sub)
    THEN CHOOSE i \in 1..(Len(s) + 1) :
            /\ OccursAt(s, sub, i)
            /\ \A j \in 1..(i - 1) : ~OccursAt(s, sub, j)
    ELSE 0

\* s.strip()
Strip(s) ==
    LET keep == {i \in 1..Len(s) : s[i] \notin whitespace}
    IN  IF keep = {} THEN <<>>
        ELSE LET first == CHOOSE i \in keep : \A j \in keep : i <= j
                 last  == CHOOSE i \in keep : \A j \in keep : j <= i
             IN  SubSeq(s, first, last)

RECURSIVE Replace(_, _, _)
\* s.replace(old, new) for a non-empty old: every occurrence, left to right.
Replace(s, old, new) ==
    LET at == Find(s, old)
    IN  IF at = 0 THEN s
        ELSE SubSeq(s, 1, at - 1) \o new
                \o Replace(SubSeq(s, at + Len(old), Len(s)), old, new)

\* s.split(sep, 1)[0]
SplitFirst(s, sep) ==
    LET at == Find(s, sep)
    IN  IF at = 0 THEN s ELSE SubSeq(s, 1, at - 1)

RECURSIVE Join(_, _)
\* sep.join(parts)
Join(sep, parts) ==
    IF parts = <<>> THEN <<>>
    ELSE IF Len(parts) = 1 THEN parts[1]
    ELSE parts[1] \o sep \o Join(sep, Tail(parts))

\* pathlib: directory / name
PathJoin(directory, name) ==
    directory \o SLASH \o name

(***************************************************************************)
(* Python values.                                                          *)
(***************************************************************************)
\* A dict with no keys.
EmptyDict ==
    [k \in {} |-> <<>>]

\* d.get(key, default)
DictGet(d, key, default) ==
    IF key \in DOMAIN d THEN d[key] ELSE default

\* JSON null and JSON arrays, as json.load returns them.
JsonNull ==
    [type |-> "null"]

JsonArray(items) ==
    [type |-> "array", items |-> items]

\* bool(value) is False: None and the empty list.
Falsy(value) ==
    \/ value.type = "null"
    \/ value.type = "array" /\ value.items = <<>>

\* The names the module binds at import time; install_from_run reads `stat'.
ModuleGlobals ==
    {"annotations", "json", "os", "shutil", "subprocess", "sys", "tarfile",
     "urllib", "Path", "Dict", "Optional", "Tuple"}

(***************************************************************************)
(* resolve_release                                                         *)
(***************************************************************************)
\* Faulty variant: the version is used as given, without strip().
lookup_url_unstripped(version) ==
    IF version # <<>>
    THEN REPO_RELEASES \o TAGS_V \o version
    ELSE REPO_RELEASES \o LATEST

\* The lookup URL for the version main read from ZSDK_VERSION.
lookup_url(version) ==
    LET stripped == Strip(version)
    IN  IF stripped # <<>>
        THEN REPO_RELEASES \o TAGS_V \o stripped
        ELSE REPO_RELEASES \o LATEST

\* Faulty variant: an HTTP error is answered with a second request, to the
\* latest endpoint, and an empty release instead of SystemExit.
resolve_release_retrying(version, response) ==
    LET url == lookup_url(version)
    IN  IF response.kind = "ok"
        THEN [requests |-> <<url>>, raised |-> "", release |-> response.release,
              message |-> <<>>]
        ELSE IF response.kind = "HTTPError"
        THEN [requests |-> <<url, REPO_RELEASES \o LATEST>>, raised |-> "",
              release |-> EmptyDict, message |-> <<>>]
        ELSE [requests |-> <<url>>, raised |-> "URLError", release |-> EmptyDict,
              message |-> response.text]

\* resolve_release on a response of urlopen: the requests made, and either
\* the parsed release or the exception that leaves the function.
resolve_release(version, response) ==
    LET url == lookup_url(version)
    IN  IF response.kind = "ok"
        THEN [requests |-> <<url>>, raised |-> "", release |-> response.release,
              message |-> <<>>]
        ELSE IF response.kind = "HTTPError"
        THEN [requests |-> <<url>>, raised |-> "SystemExit", release |-> EmptyDict,
              message |-> FETCH_FAILED \o url \o COLON_SP \o response.text]
        ELSE [requests |-> <<url>>, raised |-> "URLError", release |-> EmptyDict,
              message |-> response.text]

(***************************************************************************)
(* pick_installer_asset                                                    *)
(***************************************************************************)
\* asset.get("name", "")
asset_name(asset) ==
    DictGet(asset, "name", <<>>)

\* The predicate of run_assets.
is_run_asset(asset) ==
    /\ EndsWith(asset_name(asset), DOT_RUN)
    /\ Contains(Lower(asset_name(asset)), LINUX)
    /\ Contains(Lower(asset_name(asset)), X86_64)
    /\ ~Contains(Lower(asset_name(asset)), HOSTTOOLS)

\* The predicate of tar_assets.
is_tar_asset(asset) ==
    /\ EndsWith(asset_name(asset), DOT_TAR_XZ)
    /\ Contains(Lower(asset_name(asset)), LINUX)
    /\ Contains(Lower(asset_name(asset)), X86_64)

\* The filter of `preferred'.
is_not_minimal(asset) ==
    ~Contains(Lower(asset_name(asset)), MINIMAL)

\* release.get("assets", []) or []
release_assets(release) ==
    LET value == DictGet(release, "assets", JsonArray(<<>>))
    IN  IF Falsy(value) THEN <<>> ELSE value.items

\* Faulty variant: the join without `or "<no assets>"'.
asset_names_unmarked(assets) ==
    Join(COMMA_SP, [i \in 1..Len(assets) |-> DictGet(assets[i], "name", UNKNOWN)])

\* ", ".join(a.get("name", "<unknown>") for a in assets) or "<no assets>"
asset_names(assets) ==
    LET joined == Join(COMMA_SP,
                       [i \in 1..Len(assets) |-> DictGet(assets[i], "name", UNKNOWN)])
    IN  IF joined = <<>> THEN NO_ASSETS ELSE joined

\* Faulty variant: the first tarball match, minimal or not.
pick_tar_first_listed(tar_assets) ==
    tar_assets[1]

\* The asset chosen among the tarball matches: preferred[0] if preferred
\* else tar_assets[0].
pick_tar(tar_assets) ==
    LET preferred == SelectSeq(tar_assets, is_not_minimal)
    IN  IF preferred # <<>> THEN preferred[1] ELSE tar_assets[1]

\* Faulty variant: the tarball rule is tried before the installer rule.
pick_installer_asset_tar_first(release) ==
    LET assets     == release_assets(release)
        run_assets == SelectSeq(assets, is_run_asset)
        tar_assets == SelectSeq(assets, is_tar_asset)
    IN  IF tar_assets # <<>>
        THEN [raised |-> "", asset |-> pick_tar(tar_assets), kind |-> "tar",
              message |-> <<>>]
        ELSE IF run_assets # <<>>
        THEN [raised |-> "", asset |-> run_assets[1], kind |-> "run",
              message |-> <<>>]
        ELSE [raised |-> "SystemExit", asset |-> EmptyDict, kind |-> "",
              message |-> NOT_FOUND \o asset_names(assets)]

\* pick_installer_asset(release): the asset and its kind, or SystemExit.
pick_installer_asset(release) ==
    LET assets     == release_assets(release)
        run_assets == SelectSeq(assets, is_run_asset)
        tar_assets == SelectSeq(assets, is_tar_asset)
    IN  IF run_assets # <<>>
        THEN [raised |-> "", asset |-> run_assets[1], kind |-> "run",
              message |-> <<>>]
        ELSE IF tar_assets # <<>>
        THEN [raised |-> "", asset |-> pick_tar(tar_assets), kind |-> "tar",
              message |-> <<>>]
        ELSE [raised |-> "SystemExit", asset |-> EmptyDict, kind |-> "",
              message |-> NOT_FOUND \o asset_names(assets)]

(***************************************************************************)
(* download                                                                *)
(***************************************************************************)
\* download(url, destination) on an outcome of the transfer: urlopen fails
\* before the destination is opened, the copy fails after it was created,
\* or the whole body is written.
download(url, outcome) ==
    IF outcome = "open_error"
    THEN [raised |-> "URLError", message |-> UrlErrorText, written |-> "none"]
    ELSE IF outcome = "stream_error"
    THEN [raised |-> "OSError", message |-> ConnResetText, written |-> "partial"]
    ELSE [raised |-> "", message |-> <<>>, written |-> "complete"]

(***************************************************************************)
(* install_from_run                                                        *)
(***************************************************************************)
\* install_from_run(installer_path, sdk_dir) on a file with permission bits
\* `mode' whose process would exit with `status'.
install_from_run(installer_path, sdk_dir_arg, mode, status) ==
    LET argv == <<installer_path, DASH_DASH, DASH_D, sdk_dir_arg>>
    IN  IF "stat" \notin ModuleGlobals
        THEN [raised |-> "NameError", message |-> NameErrorStat,
              mode |-> mode, argv |-> <<>>, result |-> <<>>]
        ELSE IF status # 0
        THEN [raised |-> "CalledProcessError", message |-> CalledProcessErrorText,
              mode |-> mode \cup {"S_IEXEC"}, argv |-> argv, result |-> <<>>]
        ELSE [raised |-> "", message |-> <<>>,
              mode |-> mode \cup {"S_IEXEC"}, argv |-> argv, result |-> sdk_dir_arg]

(***************************************************************************)
(* install_from_tarball                                                    *)
(***************************************************************************)
\* tar.extractall(path=home): the archive's top-level entries, with the
\* modification times recorded in the archive, over what home held.
extractall(fs, members) ==
    [n \in (DOMAIN fs) \cup (DOMAIN members) |->
        IF n \in DOMAIN members THEN members[n] ELSE fs[n]]

\* candidate.exists() for a path under home.
path_exists(path, home_dir, fs) ==
    \E n \in DOMAIN fs : PathJoin(home_dir, n) = path

\* Faulty variant: the candidates in the opposite order.
candidates_base_first(home_dir, archive_name, version) ==
    LET stripped  == Strip(version)
        base_name == Replace(archive_name, DOT_TAR_XZ, <<>>)
    IN  <<PathJoin(home_dir, base_name)>>
        \o (IF Contains(base_name, UNDERSCORE_LINUX)
            THEN <<PathJoin(home_dir, SplitFirst(base_name, UNDERSCORE_LINUX))>>
            ELSE <<>>)
        \o (IF stripped # <<>>
            THEN <<PathJoin(home_dir, ZEPHYR_SDK_DASH \o stripped)>>
            ELSE <<>>)

\* The list `candidates' of install_from_tarball.
candidates(home_dir, archive_name, version) ==
    LET stripped  == Strip(version)
        base_name == Replace(archive_name, DOT_TAR_XZ, <<>>)
    IN  (IF stripped # <<>>
         THEN <<PathJoin(home_dir, ZEPHYR_SDK_DASH \o stripped)>>
         ELSE <<>>)
        \o (IF Contains(base_name, UNDERSCORE_LINUX)
            THEN <<PathJoin(home_dir, SplitFirst(base_name, UNDERSCORE_LINUX))>>
            ELSE <<>>)
        \o <<PathJoin(home_dir, base_name)>>

\* home.glob("zephyr-sdk-*"): the entries of home the pattern matches.
glob_zephyr_sdk(fs) ==
    {n \in DOMAIN fs : StartsWith(n, ZEPHYR_SDK_DASH)}

\* The paths sorted(..., key=st_mtime, reverse=True)[0] can be: glob yields
\* the entries in directory order, so entries with equal times may come in
\* either order.
extracted_first(home_dir, fs) ==
    LET matches == glob_zephyr_sdk(fs)
    IN  {PathJoin(home_dir, n) : n \in {m \in matches : \A o \in matches : fs[o] <= fs[m]}}

\* install_from_tarball(archive_path, version): the outcomes it can have when
\* home holds `fs', the archive is readable or not and unpacks `members'.
install_from_tarball(archive_name, version, home_dir, fs, members, readable) ==
    IF ~readable
    THEN {[raised |-> "ReadError", message |-> TarReadErrorText, fs |-> fs,
           result |-> <<>>]}
    ELSE
      LET after    == extractall(fs, members)
          cands    == candidates(home_dir, archive_name, version)
          existing == SelectSeq(cands, LAMBDA c : path_exists(c, home_dir, after))
          newest   == extracted_first(home_dir, after)
      IN  IF existing # <<>>
          THEN {[raised |-> "", message |-> <<>>, fs |-> after, result |-> existing[1]]}
          ELSE IF newest # {}
          THEN {[raised |-> "", message |-> <<>>, fs |-> after, result |-> p] :
                    p \in newest}
          ELSE {[raised |-> "SystemExit", message |-> LOCATE_FAILED, fs |-> after,
                 result |-> <<>>]}

(***************************************************************************)
(* The inputs the model draws from.                                        *)
(***************************************************************************)
\* All sequences over S of length at most n.
SeqsUpTo(S, n) ==
    UNION {[1..k -> S] : k \in 0..n}

\* An asset object of the releases API.
Asset(name) ==
    [name |-> name, browser_download_url |-> DownloadHost \o name]

\* An asset object without a "name" key.
NamelessAsset ==
    [browser_download_url |-> DownloadHost]

RunNames ==
    {RunSetup, RunUpper}

TarNames ==
    {TarMinimal, TarFull, TarFull17, TarDash}

OtherNames ==
    {RunHosttools, Checksums}

Catalogue ==
    {Asset(n) : n \in RunNames \cup TarNames \cup OtherNames} \cup {NamelessAsset}

\* Release objects: "assets" missing, null, or a list of at most n assets.
Releases(n) ==
    {EmptyDict, [assets |-> JsonNull]}
        \cup {[assets |-> JsonArray(s)] : s \in SeqsUpTo(Catalogue, n)}

\* What urlopen does with the lookup request.
LookupResponses(n) ==
    {[kind |-> "ok", release |-> r] : r \in Releases(n)}
        \cup {[kind |-> "HTTPError", text |-> t] : t \in {Http404, Http503}}
        \cup {[kind |-> "URLError", text |-> UrlErrorText]}

\* A process environment: each variable is unset or has one of its values.
Environ(choice) ==
    [k \in {n \in DOMAIN choice : choice[n].set} |-> choice[k].value]

Unset ==
    [set |-> FALSE, value |-> <<>>]

Value(v) ==
    [set |-> TRUE, value |-> v]

VersionChoices ==
    {Unset, Value(<<>>), Value(Blank), Value(V0170), Value(V0168Padded)}

Environs ==
    {Environ([ZSDK_VERSION |-> v, HOME |-> h, GITHUB_ENV |-> g]) :
        v \in VersionChoices,
        h \in {Unset, Value(HomeDir)},
        g \in {Unset, Value(<<>>), Value(EnvFilePath)}}

\* Environments in which HOME and GITHUB_ENV are set.
CompleteEnvirons ==
    {e \in Environs : /\ "HOME" \in DOMAIN e
                      /\ "GITHUB_ENV" \in DOMAIN e
                      /\ e["GITHUB_ENV"] # <<>>}

\* Directory contents: entry name -> modification time.
Listings(names, n) ==
    UNION {[S -> 1..MaxMtime] : S \in {T \in SUBSET names : Cardinality(T) <= n}}

\* What home can hold before the run.
HomeListings ==
    Listings({OldSdk, Dir0170}, 2)

\* What an archive can unpack.
ArchiveListings ==
    Listings({Dir0170, Dir0168, DirFull0168, DirMinimal, DirDash, Tools}, MaxMembers)

\* Permission bits of a file created by open("wb") under umask 022.
NewFileMode ==
    {"S_IRUSR", "S_IWUSR", "S_IRGRP", "S_IROTH"}

(***************************************************************************)
(* The state of one run of the script.                                     *)
(***************************************************************************)
VARIABLES
    environ,         \* os.environ
    installer_exit,  \* the exit status the downloaded installer would return
    tar_members,     \* the entries the downloaded archive would unpack
    home,            \* the entries of the home directory
    workspace,       \* the files of the working directory: name -> state, mode
    pc,              \* the statement of main the run is at
    requests,        \* the URLs opened with urlopen, in order
    responses,       \* what each urlopen call did: kind and error text
    release,         \* main's `release'
    asset,           \* main's `asset'
    asset_type,      \* main's `asset_type'
    executed,        \* the commands run with subprocess.run, in order
    sdk_dir,         \* main's `sdk_dir' once an install function returned
    env_file,        \* the lines of the file GITHUB_ENV names
    stderr,          \* the message the process ended with
    exit_code,       \* "running", "zero" or "nonzero"
    stages           \* the stages entered, each with whether it completed

vars ==
    <<environ, installer_exit, tar_members, home, workspace, pc, requests,
      responses, release, asset, asset_type, executed, sdk_dir, env_file, stderr,
      exit_code, stages>>

\* os.environ.get("ZSDK_VERSION", "")
version ==
    DictGet(environ, "ZSDK_VERSION", <<>>)

\* str(workspace / asset["name"])
artifact_path ==
    PathJoin(WorkDir, asset["name"])

\* A stage returned normally.
Completed(stage) ==
    stages' = Append(stages, [stage |-> stage, ok |-> TRUE])

\* An exception left main in a stage: the interpreter prints it and exits 1.
Abort(stage, message) ==
    /\ stages' = Append(stages, [stage |-> stage, ok |-> FALSE])
    /\ stderr' = message
    /\ exit_code' = "nonzero"
    /\ pc' = "failed"

\* The state main starts in.
Start ==
    /\ workspace = EmptyDict
    /\ pc = "lookup"
    /\ requests = <<>>
    /\ responses = <<>>
    /\ release = EmptyDict
    /\ asset = EmptyDict
    /\ asset_type = ""
    /\ executed = <<>>
    /\ sdk_dir = <<>>
    /\ env_file = <<>>
    /\ stderr = <<>>
    /\ exit_code = "running"
    /\ stages = <<>>

Init ==
    /\ environ \in Environs
    /\ installer_exit \in {0, 1}
    /\ tar_members \in {EmptyDict, [n \in {Dir0170} |-> 1]}
    /\ home = EmptyDict
    /\ Start

(***************************************************************************)
(* main, one action per stage.                                             *)
(***************************************************************************)
\* release = resolve_release(version)
Lookup(n) ==
    /\ pc = "lookup"
    /\ \E response \in LookupResponses(n) :
        LET r == resolve_release(version, response)
        IN  /\ requests' = requests \o r.requests
            /\ responses' = Append(responses,
                    [kind |-> response.kind, text |-> DictGet(response, "text", <<>>)])
            /\ release' = r.release
            /\ IF r.raised = ""
               THEN /\ Completed("lookup")
                    /\ pc' = "select"
                    /\ UNCHANGED <<stderr, exit_code>>
               ELSE Abort("lookup", r.message)
    /\ UNCHANGED <<environ, installer_exit, tar_members, home, workspace, asset,
                   asset_type, executed, sdk_dir, env_file>>

ResolveRelease ==
    Lookup(MaxLookupAssets)

\* asset, asset_type = pick_installer_asset(release)
PickInstallerAsset ==
    /\ pc = "select"
    /\ LET r == pick_installer_asset(release)
       IN  /\ asset' = r.asset
           /\ asset_type' = r.kind
           /\ IF r.raised = ""
              THEN /\ Completed("selection")
                   /\ pc' = "download"
                   /\ UNCHANGED <<stderr, exit_code>>
              ELSE Abort("selection", r.message)
    /\ UNCHANGED <<environ, installer_exit, tar_members, home, workspace, requests,
                   responses, release, executed, sdk_dir, env_file>>

\* Faulty variant: a failed download is swallowed and main goes on.
DownloadSwallowingErrors ==
    /\ pc = "download"
    /\ \E outcome \in {"ok", "open_error", "stream_error"} :
        LET r == download(asset["browser_download_url"], outcome)
        IN  /\ requests' = Append(requests, asset["browser_download_url"])
            /\ responses' = Append(responses, [kind |-> outcome, text |-> r.message])
            /\ workspace' =
                 [n \in (DOMAIN workspace) \cup {asset["name"]} |->
                     IF n = asset["name"]
                     THEN [content |-> r.written, mode |-> NewFileMode]
                     ELSE workspace[n]]
            /\ stages' = Append(stages, [stage |-> "download", ok |-> r.raised = ""])
            /\ pc' = "install"
            /\ UNCHANGED <<stderr, exit_code>>
    /\ UNCHANGED <<environ, installer_exit, tar_members, home, release, asset,
                   asset_type, executed, sdk_dir, env_file>>

\* download(download_url, artifact_path)
Download ==
    /\ pc = "download"
    /\ \E outcome \in {"ok", "open_error", "stream_error"} :
        LET r == download(asset["browser_download_url"], outcome)
        IN  /\ requests' = Append(requests, asset["browser_download_url"])
            /\ responses' = Append(responses, [kind |-> outcome, text |-> r.message])
            /\ workspace' =
                 IF r.written = "none" THEN workspace
                 ELSE [n \in (DOMAIN workspace) \cup {asset["name"]} |->
                         IF n = asset["name"]
                         THEN [content |-> r.written, mode |-> NewFileMode]
                         ELSE workspace[n]]
            /\ IF r.raised = ""
               THEN /\ Completed("download")
                    /\ pc' = "install"
                    /\ UNCHANGED <<stderr, exit_code>>
               ELSE Abort("download", r.message)
    /\ UNCHANGED <<environ, installer_exit, tar_members, home, release, asset,
                   asset_type, executed, sdk_dir, env_file>>

\* sdk_dir = Path(os.environ["HOME"]) / "zephyr-sdk"
\* install_from_run(artifact_path, sdk_dir)
InstallFromRun ==
    /\ pc = "install"
    /\ asset_type = "run"
    /\ IF "HOME" \notin DOMAIN environ
       THEN /\ Abort("script-install", KeyErrorHome)
            /\ UNCHANGED <<workspace, executed, sdk_dir>>
       ELSE LET target == PathJoin(environ["HOME"], ZEPHYR_SDK)
                r == install_from_run(artifact_path, target,
                                      workspace[asset["name"]].mode, installer_exit)
            IN  /\ workspace' = [workspace EXCEPT ![asset["name"]].mode = r.mode]
                /\ executed' = IF r.argv = <<>> THEN executed
                               ELSE Append(executed, r.argv)
                /\ IF r.raised = ""
                   THEN /\ sdk_dir' = r.result
                        /\ Completed("script-install")
                        /\ pc' = "persist"
                        /\ UNCHANGED <<stderr, exit_code>>
                   ELSE /\ Abort("script-install", r.message)
                        /\ UNCHANGED sdk_dir
    /\ UNCHANGED <<environ, installer_exit, tar_members, home, requests, responses,
                   release, asset, asset_type, env_file>>

\* sdk_dir = Path(os.environ["HOME"]) / "zephyr-sdk"
\* sdk_dir = install_from_tarball(artifact_path, version)
InstallFromTarball ==
    /\ pc = "install"
    /\ asset_type # "run"
    /\ IF "HOME" \notin DOMAIN environ
       THEN /\ Abort("archive-extraction", KeyErrorHome)
            /\ UNCHANGED <<home, sdk_dir>>
       ELSE \E readable \in BOOLEAN :
            \E r \in install_from_tarball(asset["name"], version, environ["HOME"],
                                          home, tar_members, readable) :
                /\ home' = r.fs
                /\ IF r.raised = ""
                   THEN /\ sdk_dir' = r.result
                        /\ Completed("archive-extraction")
                        /\ pc' = "persist"
                        /\ UNCHANGED <<stderr, exit_code>>
                   ELSE /\ Abort("archive-extraction", r.message)
                        /\ UNCHANGED sdk_dir
    /\ UNCHANGED <<environ, installer_exit, tar_members, workspace, requests,
                   responses, release, asset, asset_type, executed, env_file>>

\* github_env = os.environ.get("GITHUB_ENV") and the append to that file
PersistEnv ==
    /\ pc = "persist"
    /\ IF DictGet(environ, "GITHUB_ENV", <<>>) = <<>>
       THEN /\ Abort("append", ENV_NOT_SET)
            /\ UNCHANGED env_file
       ELSE /\ env_file' = Append(env_file, INSTALL_DIR_EQ \o sdk_dir)
            /\ Completed("append")
            /\ pc' = "done"
            /\ exit_code' = "zero"
            /\ UNCHANGED stderr
    /\ UNCHANGED <<environ, installer_exit, tar_members, home, workspace, requests,
                   responses, release, asset, asset_type, executed, sdk_dir>>

Next ==
    \/ ResolveRelease
    \/ PickInstallerAsset
    \/ Download
    \/ InstallFromRun
    \/ InstallFromTarball
    \/ PersistEnv

Spec ==
    Init /\ [][Next]_vars

(***************************************************************************)
(* The selector on every release of the bound: main after a lookup that    *)
(* returned the release.                                                   *)
(***************************************************************************)
InitSelector ==
    /\ environ \in CompleteEnvirons
    /\ installer_exit = 0
    /\ tar_members = EmptyDict
    /\ home = EmptyDict
    /\ workspace = EmptyDict
    /\ pc = "select"
    /\ requests = <<lookup_url(version)>>
    /\ responses = <<[kind |-> "ok", text |-> <<>>]>>
    /\ release \in Releases(MaxAssets)
    /\ asset = EmptyDict
    /\ asset_type = ""
    /\ executed = <<>>
    /\ sdk_dir = <<>>
    /\ env_file = <<>>
    /\ stderr = <<>>
    /\ exit_code = "running"
    /\ stages = <<[stage |-> "lookup", ok |-> TRUE]>>

NextSelector ==
    PickInstallerAsset

SpecSelector ==
    InitSelector /\ [][NextSelector]_vars

(***************************************************************************)
(* The tarball installer on every archive name, version, home directory    *)
(* and archive content of the bounds: main after the download of a tarball *)
(* asset.                                                                  *)
(***************************************************************************)
InitTarball ==
    /\ environ \in CompleteEnvirons
    /\ installer_exit = 0
    /\ tar_members \in ArchiveListings
    /\ home \in HomeListings
    /\ \E name \in TarNames :
        /\ asset = Asset(name)
        /\ release = [assets |-> JsonArray(<<Asset(name)>>)]
        /\ workspace = [n \in {name} |-> [content |-> "complete", mode |-> NewFileMode]]
        /\ requests = <<lookup_url(version), Asset(name)["browser_download_url"]>>
    /\ responses = <<[kind |-> "ok", text |-> <<>>], [kind |-> "ok", text |-> <<>>]>>
    /\ asset_type = "tar"
    /\ pc = "install"
    /\ executed = <<>>
    /\ sdk_dir = <<>>
    /\ env_file = <<>>
    /\ stderr = <<>>
    /\ exit_code = "running"
    /\ stages = <<[stage |-> "lookup", ok |-> TRUE],
                  [stage |-> "selection", ok |-> TRUE],
                  [stage |-> "download", ok |-> TRUE]>>

NextTarball ==
    InstallFromTarball

SpecTarball ==
    InitTarball /\ [][NextTarball]_vars

(***************************************************************************)
(* Properties.                                                             *)
(***************************************************************************)
\* The assets of main's release as listed: none when "assets" is missing or
\* null.
ListedAssets ==
    IF "assets" \in DOMAIN release /\ release["assets"].type = "array"
    THEN release["assets"].items
    ELSE <<>>

\* The positions of the listed assets whose name is in a set of names.
Positions(names) ==
    {i \in 1..Len(ListedAssets) :
        /\ "name" \in DOMAIN ListedAssets[i]
        /\ ListedAssets[i]["name"] \in names}

\* The least element of a non-empty set of positions.
First(positions) ==
    CHOOSE i \in positions : \A j \in positions : i <= j

\* The tarball names of the catalogue that contain "minimal" in any case.
MinimalTarNames ==
    {TarMinimal, TarDash}

\* The run has ended.
Ended ==
    pc \in {"done", "failed"}

\* The names of the stages entered, in order.
StageNames ==
    [i \in 1..Len(stages) |-> stages[i].stage]

\* s is an initial part of t.
IsPrefix(s, t) ==
    /\ Len(s) <= Len(t)
    /\ SubSeq(t, 1, Len(s)) = s

\* "/home/ci/zephyr-sdk"
HomeZephyrSdk ==
    <<"/","h","o","m","e","/","c","i","/","z","e","p","h","y","r","-","s","d","k">>
\* "/work/zephyr-sdk-0.17.0_linux-x86_64_setup.run"
WorkRunSetup ==
    <<"/","w","o","r","k","/","z","e","p","h","y","r","-","s","d","k","-","0",".","1","7",".","0","_","l","i","n","u","x","-","x","8","6","_","6","4","_","s","e","t","u","p",".","r","u","n">>

\* The C1 scenario: no version set, HOME and GITHUB_ENV set, the lookup
\* returned a release whose only asset is the setup.run installer, the
\* download succeeded and the installer would exit zero.
C1_Scenario ==
    /\ "ZSDK_VERSION" \notin DOMAIN environ
    /\ "HOME" \in DOMAIN environ /\ environ["HOME"] = HomeDir
    /\ "GITHUB_ENV" \in DOMAIN environ /\ environ["GITHUB_ENV"] = EnvFilePath
    /\ Len(responses) = 2
    /\ responses[1].kind = "ok"
    /\ release = [assets |-> JsonArray(<<Asset(RunSetup)>>)]
    /\ responses[2].kind = "ok"
    /\ installer_exit = 0

\* C1: in the scenario above the run ends successfully: the setup.run asset
\* was selected with kind "run", made executable and executed with the
\* arguments "--", "-d", <home>/zephyr-sdk, and the environment file holds
\* the line ZEPHYR_SDK_INSTALL_DIR=<home>/zephyr-sdk.
C1_InstallerRunSucceeds ==
    (C1_Scenario /\ Ended) =>
        /\ pc = "done"
        /\ exit_code = "zero"
        /\ asset = Asset(RunSetup)
        /\ asset_type = "run"
        /\ "S_IEXEC" \in workspace[RunSetup].mode
        /\ executed = << <<WorkRunSetup, DASH_DASH, DASH_D, HomeZephyrSdk>> >>
        /\ env_file = <<INSTALL_DIR_EQ \o HomeZephyrSdk>>

\* C2: once the selector has run on a release that lists at least one
\* installer-script asset, it returned kind "run" and the first such asset
\* in listed order, whatever tarballs the release also lists.
C2_RunAssetHasPriority ==
    (pc # "select" /\ pc # "lookup" /\ Positions(RunNames) # {}) =>
        /\ asset_type = "run"
        /\ asset = ListedAssets[First(Positions(RunNames))]

\* C2 witness: a tarball is listed before the installer script and the
\* installer script was selected.
C2_Witness ==
    /\ pc = "download"
    /\ release = [assets |-> JsonArray(<<Asset(TarFull), Asset(RunUpper)>>)]
    /\ asset = Asset(RunUpper)
    /\ asset_type = "run"

\* C3: once the selector has run on a release with no installer-script
\* asset and at least one tarball asset, it returned kind "tar" and the
\* first tarball without "minimal" in its name if there is one, else the
\* first tarball.
C3_NonMinimalTarballPreferred ==
    (pc # "select" /\ pc # "lookup"
        /\ Positions(RunNames) = {} /\ Positions(TarNames) # {}) =>
        /\ asset_type = "tar"
        /\ asset = ListedAssets[
                     IF Positions(TarNames \ MinimalTarNames) # {}
                     THEN First(Positions(TarNames \ MinimalTarNames))
                     ELSE First(Positions(TarNames))]

\* C3 witness: a minimal tarball is listed before a full one and the full
\* one was selected.
C3_Witness ==
    /\ pc = "download"
    /\ release = [assets |-> JsonArray(<<Asset(TarMinimal), Asset(TarFull)>>)]
    /\ asset = Asset(TarFull)
    /\ asset_type = "tar"

RECURSIVE ListedInOrder(_, _)
\* The names occur in text one after another, in order.
ListedInOrder(text, names) ==
    IF names = <<>> THEN TRUE
    ELSE LET at == Find(text, names[1])
         IN  /\ at # 0
             /\ ListedInOrder(SubSeq(text, at + Len(names[1]), Len(text)), Tail(names))

\* The names of the listed assets that have one, in order.
ListedNames ==
    LET named == SelectSeq(ListedAssets, LAMBDA a : "name" \in DOMAIN a)
    IN  [i \in 1..Len(named) |-> named[i]["name"]]

\* C4: once the selector has run on a release with no installer-script and
\* no tarball asset, it returned no asset and the run failed with a
\* diagnostic that lists the asset names in listed order; when the list is
\* empty, null or missing the diagnostic is the "<no assets>" marker in
\* place of the names.
C4_NoMatchFailsWithListing ==
    (pc # "select" /\ pc # "lookup"
        /\ Positions(RunNames) = {} /\ Positions(TarNames) = {}) =>
        /\ pc = "failed"
        /\ exit_code = "nonzero"
        /\ asset = EmptyDict
        /\ asset_type = ""
        /\ StartsWith(stderr, NOT_FOUND)
        /\ IF ListedAssets = <<>>
           THEN stderr = NOT_FOUND \o NO_ASSETS
           ELSE /\ ListedInOrder(SubSeq(stderr, Len(NOT_FOUND) + 1, Len(stderr)),
                                 ListedNames)
                /\ ~Contains(stderr, NO_ASSETS)

\* C4 witness: the release has a null asset list and the run failed with
\* the marker.
C4_Witness ==
    /\ pc = "failed"
    /\ release = [assets |-> JsonNull]
    /\ Contains(stderr, NO_ASSETS)

\* C4 witness of the listing: two unmatched assets, named in listed order.
C4_WitnessListing ==
    /\ pc = "failed"
    /\ release = [assets |-> JsonArray(<<Asset(Checksums), Asset(RunHosttools)>>)]
    /\ stderr = NOT_FOUND \o Checksums \o COMMA_SP \o RunHosttools

\* "zephyr-sdk-0.17.0_linux-x86_64"
DirFull0170 ==
    <<"z","e","p","h","y","r","-","s","d","k","-","0",".","1","7",".","0","_","l","i","n","u","x","-","x","8","6","_","6","4">>
\* "/home/ci/zephyr-sdk-0.17.0"
HomeDir0170 ==
    <<"/","h","o","m","e","/","c","i","/","z","e","p","h","y","r","-","s","d","k","-","0",".","1","7",".","0">>

\* The directory names install_from_tarball is to try, in order, for the
\* version and the archive of the run: (a) zephyr-sdk-<version>, (b) the
\* base name cut at "_linux", (c) the base name.
C5_Expected ==
    (IF version = V0170 THEN <<Dir0170>>
     ELSE IF version = V0168Padded THEN <<Dir0168>>
     ELSE <<>>)
    \o (IF asset["name"] = TarMinimal THEN <<Dir0170, DirMinimal>>
        ELSE IF asset["name"] = TarFull THEN <<Dir0168, DirFull0168>>
        ELSE IF asset["name"] = TarFull17 THEN <<Dir0170, DirFull0170>>
        ELSE <<DirDash>>)

\* C5: once install_from_tarball has unpacked the archive, the directory it
\* returned is the first of the candidates (a), (b), (c) that exists in
\* home; when none exists, a most recently modified entry of home matching
\* zephyr-sdk-*; and when nothing matches the run failed.
C5_TarballDirectoryResolution ==
    (pc # "install" /\ asset_type = "tar" /\ "HOME" \in DOMAIN environ
        /\ ~(Len(stages) = 4 /\ stderr = TarReadErrorText)
        /\ Len(stages) >= 4) =>
        LET present == {i \in 1..Len(C5_Expected) : C5_Expected[i] \in DOMAIN home}
            globbed == {n \in DOMAIN home : StartsWith(n, ZEPHYR_SDK_DASH)}
        IN  IF present # {}
            THEN /\ stages[4].ok
                 /\ sdk_dir = PathJoin(environ["HOME"], C5_Expected[First(present)])
            ELSE IF globbed # {}
            THEN /\ stages[4].ok
                 /\ \E n \in globbed :
                      /\ \A m \in globbed : home[m] <= home[n]
                      /\ sdk_dir = PathJoin(environ["HOME"], n)
            ELSE /\ pc = "failed"
                 /\ exit_code = "nonzero"
                 /\ stderr = LOCATE_FAILED
                 /\ sdk_dir = <<>>

\* C5 witness: the minimal 0.17.0 archive with version 0.17.0, with both
\* the version-based directory and the base-name directory in home; the
\* version-based directory was returned.
C5_Witness ==
    /\ pc = "persist"
    /\ asset = Asset(TarMinimal)
    /\ version = V0170
    /\ Dir0170 \in DOMAIN home
    /\ DirMinimal \in DOMAIN home
    /\ sdk_dir = HomeDir0170

\* C5 witness of the order of (a) and (b): version 0.17.0 is requested, the
\* archive is named after 0.16.8 and both directories exist.
C5_WitnessVersionFirst ==
    /\ pc = "persist"
    /\ asset = Asset(TarFull)
    /\ version = V0170
    /\ Dir0170 \in DOMAIN home
    /\ Dir0168 \in DOMAIN home
    /\ sdk_dir = HomeDir0170

\* C5 witness of the fallback: no candidate exists and the newer of two
\* matching entries was returned.
C5_WitnessGlob ==
    /\ pc = "persist"
    /\ asset = Asset(TarDash)
    /\ version = <<>>
    /\ DOMAIN home = {OldSdk, Dir0168}
    /\ home[OldSdk] > home[Dir0168]
    /\ sdk_dir = PathJoin(HomeDir, OldSdk)

\* C6: in a run where GITHUB_ENV is unset or empty nothing is downloaded to
\* disk, no installer is executed and no archive is extracted.
C6_NoSideEffectWithoutEnvFile ==
    (DictGet(environ, "GITHUB_ENV", <<>>) = <<>>) =>
        /\ workspace = EmptyDict
        /\ executed = <<>>
        /\ \A i \in 1..Len(stages) :
             stages[i].stage \notin {"download", "script-install", "archive-extraction"}

\* C7: when the lookup request ended in an HTTP error status, exactly one
\* request was made, the process ended non-zero with a message naming the
\* URL and the error, and no asset was selected, no file downloaded, no
\* installer run and nothing appended to the environment file.
C7_HttpErrorIsTerminal ==
    (responses # <<>> /\ responses[1].kind = "HTTPError") =>
        /\ Len(requests) = 1
        /\ pc = "failed"
        /\ exit_code = "nonzero"
        /\ Contains(stderr, requests[1])
        /\ Contains(stderr, responses[1].text)
        /\ asset = EmptyDict
        /\ asset_type = ""
        /\ workspace = EmptyDict
        /\ executed = <<>>
        /\ env_file = <<>>
        /\ stages = <<[stage |-> "lookup", ok |-> FALSE]>>

\* "https://api.github.com/repos/zephyrproject-rtos/sdk-ng/releases/latest"
UrlLatest ==
    <<"h","t","t","p","s",":","/","/","a","p","i",".","g","i","t","h","u","b",".","c","o","m","/","r","e","p","o","s","/","z","e","p","h","y","r","p","r","o","j","e","c","t","-","r","t","o","s","/","s","d","k","-","n","g","/","r","e","l","e","a","s","e","s","/","l","a","t","e","s","t">>
\* "https://api.github.com/repos/zephyrproject-rtos/sdk-ng/releases/tags/v0.17.0"
UrlTag0170 ==
    <<"h","t","t","p","s",":","/","/","a","p","i",".","g","i","t","h","u","b",".","c","o","m","/","r","e","p","o","s","/","z","e","p","h","y","r","p","r","o","j","e","c","t","-","r","t","o","s","/","s","d","k","-","n","g","/","r","e","l","e","a","s","e","s","/","t","a","g","s","/","v","0",".","1","7",".","0">>
\* "https://api.github.com/repos/zephyrproject-rtos/sdk-ng/releases/tags/v0.16.8"
UrlTag0168 ==
    <<"h","t","t","p","s",":","/","/","a","p","i",".","g","i","t","h","u","b",".","c","o","m","/","r","e","p","o","s","/","z","e","p","h","y","r","p","r","o","j","e","c","t","-","r","t","o","s","/","s","d","k","-","n","g","/","r","e","l","e","a","s","e","s","/","t","a","g","s","/","v","0",".","1","6",".","8">>

\* C7 witness: the lookup of the latest release returned 404.
C7_Witness ==
    /\ pc = "failed"
    /\ responses = <<[kind |-> "HTTPError", text |-> Http404]>>
    /\ requests = <<UrlLatest>>
    /\ stderr = FETCH_FAILED \o UrlLatest \o COLON_SP \o Http404

\* C8: when the lookup request failed with a network error, the process
\* ended with a message naming the URL and the error.
C8_NetworkErrorNamesUrl ==
    (responses # <<>> /\ responses[1].kind = "URLError") =>
        /\ pc = "failed"
        /\ exit_code = "nonzero"
        /\ Len(requests) = 1
        /\ Contains(stderr, requests[1])
        /\ Contains(stderr, responses[1].text)

\* C9: the first request of a run goes to <releases>/tags/v<version> with
\* the version trimmed when that is non-empty, to <releases>/latest when the
\* version is empty, unset or blank, and no other request of the run goes
\* to a releases endpoint.
C9_LookupUrl ==
    (requests # <<>>) =>
        /\ requests[1] = IF Strip(version) # <<>>
                         THEN REPO_RELEASES \o TAGS_V \o Strip(version)
                         ELSE REPO_RELEASES \o LATEST
        /\ (version = V0170) => requests[1] = UrlTag0170
        /\ (version = V0168Padded) => requests[1] = UrlTag0168
        /\ (version \in {<<>>, Blank}) => requests[1] = UrlLatest
        /\ \A i \in 2..Len(requests) : ~StartsWith(requests[i], REPO_RELEASES)

\* C9 witness: a version with surrounding blanks was requested by its tag,
\* and the run went on to download an asset.
C9_Witness ==
    /\ version = V0168Padded
    /\ Len(requests) = 2
    /\ requests[1] = UrlTag0168

\* C9 witness of the latest endpoint: a blank version.
C9_WitnessLatest ==
    /\ version = Blank
    /\ requests = <<UrlLatest>>

\* The two orders in which a run enters its stages.
ScriptOrder ==
    <<"lookup", "selection", "download", "script-install", "append">>

ArchiveOrder ==
    <<"lookup", "selection", "download", "archive-extraction", "append">>

\* C10: the stages of a run are entered in the order lookup, selection,
\* download, one install stage (the one the selected kind names), append,
\* each at most once; a stage that failed is the last one, and the process
\* has ended non-zero; the environment file holds at most one line, written
\* only after the install stage completed with a directory.
C10_StagesInOrderFailureTerminal ==
    /\ \/ IsPrefix(StageNames, ScriptOrder) /\ (Len(stages) >= 4 => asset_type = "run")
       \/ IsPrefix(StageNames, ArchiveOrder) /\ (Len(stages) >= 4 => asset_type = "tar")
    /\ \A i \in 1..Len(stages) :
         ~stages[i].ok =>
            /\ i = Len(stages)
            /\ pc = "failed"
            /\ exit_code = "nonzero"
    /\ pc = "failed" => stages # <<>> /\ ~stages[Len(stages)].ok
    /\ exit_code = "zero" => pc = "done" /\ Len(stages) = 5
    /\ Len(env_file) <= 1
    /\ env_file # <<>> =>
         /\ Len(stages) = 5
         /\ stages[4].ok
         /\ sdk_dir # <<>>
         /\ env_file[1] = INSTALL_DIR_EQ \o sdk_dir

\* C10 witness: a run that extracted an archive and appended the line.
C10_Witness ==
    /\ pc = "done"
    /\ StageNames = ArchiveOrder
    /\ Len(env_file) = 1

\* C10 witness of a terminal failure: the download failed and nothing
\* followed it.
C10_WitnessFailure ==
    /\ pc = "failed"
    /\ Len(stages) = 3
    /\ ~stages[3].ok
    /\ env_file = <<>>

=============================================================================
